---- MODULE Spec2Model ----
(***************************************************************************)
(* create-atomik: the package-manager resolver (utils/package-manager.ts)  *)
(* and the project materializer (commands/create.ts).                      *)
(*                                                                         *)
(* Paths are sequences of segments, the file system is a function from     *)
(* paths to nodes.  Text the code inspects with its own string operations  *)
(* (the packageManager field, npm_config_user_agent) is a sequence of      *)
(* one-character strings, so that split('@') and includes() are computed.  *)
(***************************************************************************)
EXTENDS Integers, Sequences, FiniteSets, TLC

VARIABLES
    fs,            \* path -> node: the file system below the root
    cwd,           \* process.cwd()
    pc,            \* position of the running call
    projectName,   \* argument <project-name>, as path segments
    projectPath,   \* const projectPath of createProject (line 24)
    options,       \* CreateOptions: [typescript, javascript]
    userAgent,     \* process.env.npm_config_user_agent (Undefined when unset)
    installed,     \* managers whose `<name> --version` subprocess succeeds
    probeDir,      \* argument of a direct detectPackageManager call
    manifestPm,    \* descriptor resolved inside createPackageJson (line 244)
    pm,            \* descriptor returned by detectPackageManager (line 46)
    originalCwd,   \* local of installDependencies (line 130)
    thrown,        \* an exception is propagating
    exitCode,      \* process exit status (-1 while running)
    rollbackRan,   \* the catch block of createProject removed the directory
    resolverCalls, \* number of detectPackageManager calls of the run
    installCalls,  \* number of install subprocesses spawned
    printedRun,    \* runCommand printed in the quick-start text
    fs0            \* the file system when the call started

vars == <<fs, cwd, pc, projectName, projectPath, options, userAgent, installed,
          probeDir, manifestPm, pm, originalCwd, thrown, exitCode, rollbackRan,
          resolverCalls, installCalls, printedRun, fs0>>

-----------------------------------------------------------------------------
(* Bounds *)

\* words concatenated into an npm_config_user_agent value
MaxWords == 2
\* path segments of a project name
MaxSegs == 2

-----------------------------------------------------------------------------
(* Strings as character sequences *)

Undefined == <<"\\undefined">>

S_npm  == <<"n","p","m">>
S_pnpm == <<"p","n","p","m">>
S_yarn == <<"y","a","r","n">>
S_bun  == <<"b","u","n">>
S_at   == <<"@">>
S_ver  == <<"8">>
S_ctor == <<"c","o","n","s","t","r","u","c","t","o","r">>
S_toString == <<"t","o","S","t","r","i","n","g">>
S_deno == <<"d","e","n","o">>

\* String.prototype.includes
Includes(s, sub) ==
    \E i \in 0..(Len(s) - Len(sub)) : SubSeq(s, i + 1, i + Len(sub)) = sub

\* s.split(sep)[0] for a one-character separator: the text before the first sep
SplitFirst(s, sep) ==
    IF \E i \in 1..Len(s) : s[i] = sep
    THEN LET k == CHOOSE i \in 1..Len(s) :
                      s[i] = sep /\ \A j \in 1..(i - 1) : s[j] # sep
         IN SubSeq(s, 1, k - 1)
    ELSE s

-----------------------------------------------------------------------------
(* File system *)

Dir == [kind |-> "dir", text |-> [t |-> "none"]]
File(text) == [kind |-> "file", text |-> text]

\* fs.existsSync
ExistsSync(fsys, path) == path \in DOMAIN fsys

\* path.join(dir, name) for a relative name given as segments
Join(dir, segs) == dir \o segs

IsPrefix(p, q) == Len(p) <= Len(q) /\ SubSeq(q, 1, Len(p)) = p

\* the proper ancestors of a path and the path itself, root excluded
Prefixes(path) == { SubSeq(path, 1, k) : k \in 1..Len(path) }

\* fsys with the nodes of `more` written over it
Overlay(fsys, more) ==
    [p \in DOMAIN fsys \cup DOMAIN more |->
        IF p \in DOMAIN more THEN more[p] ELSE fsys[p]]

\* fs.mkdirSync(path, {recursive: true}): every missing directory down to path
MkdirRecursive(fsys, path) ==
    Overlay(fsys, [p \in Prefixes(path) \ DOMAIN fsys |-> Dir])

\* fs.writeFileSync(path, text)
WriteFile(fsys, path, text) ==
    Overlay(fsys, [p \in {path} |-> File(text)])

\* fs.rmSync(path, {recursive: true, force: true})
RmRecursive(fsys, path) ==
    [p \in { q \in DOMAIN fsys : ~IsPrefix(path, q) } |-> fsys[p]]

-----------------------------------------------------------------------------
(* PACKAGE_MANAGERS and detectPackageManager *)

NoConfig == "\\undefined"

PACKAGE_MANAGERS ==
    [npm  |-> [name |-> "npm",  installCommand |-> "npm install",
               runCommand |-> "npm run", lockFile |-> "package-lock.json",
               configFile |-> NoConfig],
     pnpm |-> [name |-> "pnpm", installCommand |-> "pnpm install",
               runCommand |-> "pnpm", lockFile |-> "pnpm-lock.yaml",
               configFile |-> ".pnpmrc"],
     yarn |-> [name |-> "yarn", installCommand |-> "yarn install",
               runCommand |-> "yarn", lockFile |-> "yarn.lock",
               configFile |-> ".yarnrc.yml"],
     bun  |-> [name |-> "bun",  installCommand |-> "bun install",
               runCommand |-> "bun run", lockFile |-> "bun.lockb",
               configFile |-> NoConfig]]

\* Object.entries(PACKAGE_MANAGERS): insertion order of the literal
ManagerOrder == <<"npm", "pnpm", "yarn", "bun">>

Managers == { ManagerOrder[i] : i \in 1..Len(ManagerOrder) }

Descriptors == { PACKAGE_MANAGERS[n] : n \in Managers }

\* the characters of each own key of PACKAGE_MANAGERS
KeyChars == [npm |-> S_npm, pnpm |-> S_pnpm, yarn |-> S_yarn, bun |-> S_bun]

\* what no probe matched / a falsy lookup
NoMatch == [name |-> "\\nomatch", installCommand |-> "\\undefined",
            runCommand |-> "\\undefined", lockFile |-> "\\undefined",
            configFile |-> NoConfig]

\* members every object literal inherits from Object.prototype; the value
\* of each is a function, which is truthy and is no descriptor
ObjectPrototypeKeys == { S_ctor, S_toString }

Inherited(key) ==
    [name |-> IF key = S_ctor THEN "Object" ELSE "toString",
     installCommand |-> "\\undefined", runCommand |-> "\\undefined",
     lockFile |-> "\\undefined", configFile |-> NoConfig]

\* PACKAGE_MANAGERS[pmName] for a computed key (line 75): an own key, else a
\* member found on the prototype chain, else undefined
Lookup(pmName) ==
    IF \E n \in Managers : KeyChars[n] = pmName
    THEN PACKAGE_MANAGERS[CHOOSE n \in Managers : KeyChars[n] = pmName]
    ELSE IF pmName \in ObjectPrototypeKeys THEN Inherited(pmName)
    ELSE NoMatch

\* the first manager of `order` that is in `hits`, as a descriptor
FirstOf(order, hits) ==
    IF \E i \in 1..Len(order) : order[i] \in hits
    THEN PACKAGE_MANAGERS[order[CHOOSE i \in 1..Len(order) :
              order[i] \in hits /\ \A j \in 1..(i - 1) : order[j] \notin hits]]
    ELSE NoMatch

\* 1. lock files (lines 49-55)
LockProbe(fsys, workingDir) ==
    FirstOf(ManagerOrder,
            { n \in Managers :
                ExistsSync(fsys, Join(workingDir, <<PACKAGE_MANAGERS[n].lockFile>>)) })

\* 2. config files (lines 58-66)
ConfigProbe(fsys, workingDir) ==
    FirstOf(ManagerOrder,
            { n \in Managers :
                /\ PACKAGE_MANAGERS[n].configFile # NoConfig
                /\ ExistsSync(fsys, Join(workingDir, <<PACKAGE_MANAGERS[n].configFile>>)) })

\* File text is "raw" (text JSON.parse rejects) or "json" with the value it
\* denotes; JSON values are tagged with their type
JSONstringify(value) == [t |-> "json", doc |-> value]

JSONparseThrows(text) == text.t # "json"

JSONparse(text) == text.doc

Truthy(v) ==
    CASE v.t = "undefined" -> FALSE
      [] v.t = "null" -> FALSE
      [] v.t = "str" -> v.s # <<>>
      [] v.t = "num" -> v.n # 0
      [] OTHER -> TRUE

\* packageJson.packageManager of a parsed value that is not null
GetPackageManager(json) ==
    IF json.t = "obj" /\ "packageManager" \in DOMAIN json.f
    THEN json.f.packageManager
    ELSE [t |-> "undefined"]

\* 3. package.json packageManager field (lines 69-85); every exception of
\* the try block (EISDIR, SyntaxError, TypeError) ends in the empty catch
ManifestProbe(fsys, workingDir) ==
    LET packageJsonPath == Join(workingDir, <<"package.json">>) IN
    IF ~ExistsSync(fsys, packageJsonPath) THEN NoMatch
    ELSE LET node == fsys[packageJsonPath] IN
         IF node.kind # "file" THEN NoMatch          \* readFileSync throws
         ELSE IF JSONparseThrows(node.text) THEN NoMatch
         ELSE IF JSONparse(node.text).t = "null" THEN NoMatch  \* property of null
         ELSE LET field == GetPackageManager(JSONparse(node.text)) IN
              IF ~Truthy(field) THEN NoMatch
              ELSE IF field.t # "str" THEN NoMatch    \* .split is no function
              ELSE Lookup(SplitFirst(field.s, "@"))

\* 4. npm_config_user_agent (lines 88-93)
AgentProbe(agent) ==
    IF agent = Undefined \/ agent = <<>> THEN NoMatch
    ELSE IF Includes(agent, S_pnpm) THEN PACKAGE_MANAGERS.pnpm
    ELSE IF Includes(agent, S_yarn) THEN PACKAGE_MANAGERS.yarn
    ELSE IF Includes(agent, S_bun) THEN PACKAGE_MANAGERS.bun
    ELSE NoMatch

\* 5. `<name> --version` for each manager, then the preference order
\* (lines 96-114); a failed subprocess is caught and skipped
\* preferenceOrder in the insertion order of PACKAGE_MANAGERS
preferenceOrderNpmFirst == <<"npm", "pnpm", "yarn", "bun">>

preferenceOrder == <<"pnpm", "yarn", "bun", "npm">>

AvailabilityProbe(avail) ==
    LET availableManagers == { n \in Managers : n \in avail }
    IN FirstOf(preferenceOrder, availableManagers)

\* the first probe of the cascade that matched, 6 for the fallback
FirstMatch(probes) ==
    IF \E i \in 1..Len(probes) : probes[i] # NoMatch
    THEN CHOOSE i \in 1..Len(probes) :
             probes[i] # NoMatch /\ \A j \in 1..(i - 1) : probes[j] = NoMatch
    ELSE Len(probes) + 1

\* Probes with the config-file loop placed before the lock-file loop
ProbesConfigFirst(fsys, workingDir, agent, avail) ==
    << ConfigProbe(fsys, workingDir), LockProbe(fsys, workingDir),
       ManifestProbe(fsys, workingDir), AgentProbe(agent),
       AvailabilityProbe(avail) >>

Probes(fsys, workingDir, agent, avail) ==
    << LockProbe(fsys, workingDir), ConfigProbe(fsys, workingDir),
       ManifestProbe(fsys, workingDir), AgentProbe(agent),
       AvailabilityProbe(avail) >>

\* detectPackageManager(projectPath) (lines 45-119)
detectPackageManager(fsys, dir, current, agent, avail) ==
    LET workingDir == IF dir = Undefined THEN current ELSE dir
        probes == Probes(fsys, workingDir, agent, avail)
        k == FirstMatch(probes)
    IN IF k <= Len(probes) THEN probes[k] ELSE PACKAGE_MANAGERS.npm


-----------------------------------------------------------------------------
(* generateScripts, generateDevDependencies, createPackageJson *)

\* generateScripts (lines 146-176)
generateScripts(packageManager, isTypeScript) ==
    LET baseScripts ==
            IF isTypeScript
            THEN [dev |-> "ts-node-dev --respawn --transpile-only src/index.ts",
                  build |-> "tsc",
                  start |-> "node dist/index.js"]
            ELSE [dev |-> "node --watch src/index.js",
                  start |-> "node src/index.js"]
    IN IF packageManager.name = "bun"
       THEN IF isTypeScript
            THEN [dev |-> "bun run --watch src/index.ts",
                  build |-> "bun build src/index.ts --outdir dist --target node",
                  start |-> "bun run dist/index.js"]
            ELSE [dev |-> "bun run --watch src/index.js",
                  start |-> "bun run src/index.js"]
       ELSE baseScripts

\* generateDevDependencies without the bun branch of lines 193-195
generateDevDependenciesNoBunCase(packageManager, isTypeScript) ==
    LET base == ("@types/node" :> "^20.0.0") @@ ("typescript" :> "^5.0.0")
    IN IF ~isTypeScript THEN <<>>
       ELSE base @@ ("ts-node-dev" :> "^2.0.0")

\* generateDevDependencies (lines 181-201)
generateDevDependencies(packageManager, isTypeScript) ==
    LET base == ("@types/node" :> "^20.0.0") @@ ("typescript" :> "^5.0.0")
    IN IF ~isTypeScript THEN <<>>
       ELSE IF packageManager.name = "bun" THEN base
       ELSE base @@ ("ts-node-dev" :> "^2.0.0")

S_latest == <<"l","a","t","e","s","t">>

\* NameChars of a template literal that names npm whatever manager it is given
NameCharsAlwaysNpm(name) == S_npm

\* the characters of packageManager.name in a template literal
NameChars(name) ==
    IF name \in Managers THEN KeyChars[name]
    ELSE IF name = "Object" THEN <<"O","b","j","e","c","t">>
    ELSE S_toString

\* PackageJsonObject without the condition of line 259: the pin is always set
PackageJsonObjectAlwaysPins(name, opts, packageManager) ==
    LET isTS == ~opts.javascript
    IN [t |-> "obj",
        f |-> [name |-> name,
               version |-> "1.0.0",
               main |-> IF isTS THEN "dist/index.js" ELSE "src/index.js",
               scripts |-> generateScripts(packageManager, isTS),
               license |-> "MIT",
               dependencies |-> [atomikjs |-> "^1.0.0"],
               devDependencies |-> generateDevDependencies(packageManager, isTS),
               packageManager |->
                   [t |-> "str",
                    s |-> NameChars(packageManager.name) \o S_at \o S_latest]]]

\* the object literal of createPackageJson (lines 246-262)
PackageJsonObject(name, opts, packageManager) ==
    LET isTS == ~opts.javascript
        common ==
            [name |-> name,
             version |-> "1.0.0",
             main |-> IF isTS THEN "dist/index.js" ELSE "src/index.js",
             scripts |-> generateScripts(packageManager, isTS),
             license |-> "MIT",
             dependencies |-> [atomikjs |-> "^1.0.0"],
             devDependencies |-> generateDevDependencies(packageManager, isTS)]
    IN [t |-> "obj",
        f |-> IF packageManager.name # "npm"
              THEN common @@
                   [packageManager |->
                       [t |-> "str",
                        s |-> NameChars(packageManager.name) \o S_at \o S_latest]]
              ELSE common]

-----------------------------------------------------------------------------
(* Template files *)

\* getTemplateFiles with tsconfig.json among the common files, whatever ext
getTemplateFilesAlwaysTsconfig(ext) ==
    LET isTS == ext = "ts"
    IN << [path |-> <<"src", "index." \o ext>>,
           text |-> [t |-> "raw", id |-> "main", ts |-> isTS]],
          [path |-> <<"README.md">>,
           text |-> [t |-> "raw", id |-> "readme", ts |-> FALSE]],
          [path |-> <<".gitignore">>,
           text |-> [t |-> "raw", id |-> "gitignore", ts |-> FALSE]],
          [path |-> <<"tsconfig.json">>,
           text |-> [t |-> "raw", id |-> "tsconfig", ts |-> TRUE]] >>

\* getTemplateFiles (lines 101-115): the entries in insertion order
getTemplateFiles(ext) ==
    LET isTS == ext = "ts"
        main == << [path |-> <<"src", "index." \o ext>>,
                    text |-> [t |-> "raw", id |-> "main", ts |-> isTS]] >>
        rest == << [path |-> <<"README.md">>,
                    text |-> [t |-> "raw", id |-> "readme", ts |-> FALSE]],
                   [path |-> <<".gitignore">>,
                    text |-> [t |-> "raw", id |-> "gitignore", ts |-> FALSE]] >>
        tsc  == << [path |-> <<"tsconfig.json">>,
                    text |-> [t |-> "raw", id |-> "tsconfig", ts |-> TRUE]] >>
    IN main \o rest \o (IF isTS THEN tsc ELSE <<>>)

\* StructureDirs with the last entry of the list of line 77 dropped
StructureDirsNoPublic ==
    << <<"src">>, <<"src", "routes">>, <<"src", "middleware">>,
       <<"src", "utils">> >>

\* the directories of createProjectStructure (line 77)
StructureDirs ==
    << <<"src">>, <<"src", "routes">>, <<"src", "middleware">>,
       <<"src", "utils">>, <<"public">> >>

RECURSIVE MkdirAll(_, _, _, _)
\* the first k mkdirSync calls of createProjectStructure (lines 79-81)
MkdirAll(fsys, base, dirs, k) ==
    IF k = 0 THEN fsys
    ELSE MkdirRecursive(MkdirAll(fsys, base, dirs, k - 1), Join(base, dirs[k]))

RECURSIVE WriteAll(_, _, _, _)
\* the first k iterations of the loop of copyTemplateFiles (lines 94-98)
WriteAll(fsys, base, files, k) ==
    IF k = 0 THEN fsys
    ELSE LET fullPath == Join(base, files[k].path)
             before == WriteAll(fsys, base, files, k - 1)
         IN WriteFile(MkdirRecursive(before, SubSeq(fullPath, 1, Len(fullPath) - 1)),
                      fullPath, files[k].text)


-----------------------------------------------------------------------------
(* createProject (commands/create.ts lines 15-71) *)

Home == <<"w">>

SegNames == <<"a", "b", "c", "d">>

\* project names: a, a/b, ... up to MaxSegs segments
ProjectNames == { SubSeq(SegNames, 1, n) : n \in 1..MaxSegs }

KeepText == [t |-> "raw", id |-> "keep", ts |-> FALSE]

\* what the working directory holds before the call: a chain of `depth`
\* nested directories a/b/... with a file in the deepest one, whose last
\* element is a regular file instead when lastIsFile
Layout(depth, lastIsFile) ==
    LET chain == SubSeq(SegNames, 1, depth)
        dirs  == { Join(Home, SubSeq(chain, 1, k)) :
                     k \in 0..(IF lastIsFile THEN depth - 1 ELSE depth) }
        deepest == Join(Home, SubSeq(chain, 1, IF lastIsFile THEN depth - 1 ELSE depth))
        files == IF lastIsFile THEN { Join(Home, chain) }
                 ELSE IF depth > 0 THEN { Join(deepest, <<"keep.txt">>) } ELSE {}
    IN [p \in dirs \cup files |-> IF p \in dirs THEN Dir ELSE File(KeepText)]

Layouts ==
    { Layout(d, FALSE) : d \in 0..MaxSegs } \cup { Layout(d, TRUE) : d \in 1..MaxSegs }

\* npm_config_user_agent values of the runs: unset, and the agent strings of
\* npm, pnpm, yarn and bun (each names npm after itself)
RunAgents ==
    { Undefined, S_npm, S_pnpm \o S_npm, S_yarn \o S_npm, S_bun \o S_npm }

\* path.resolve(process.cwd(), projectName) (line 24)
Resolve(current, name) == Join(current, name)

\* the ancestors of path that exist are all directories
AncestorsAreDirs(fsys, path) ==
    \A q \in Prefixes(path) \cap DOMAIN fsys : fsys[q].kind = "dir"

\* the missing directories mkdirSync(path, {recursive}) creates, top down
MissingPrefixes(fsys, path) ==
    { q \in Prefixes(path) : q \notin DOMAIN fsys }

\* fsys after the first k missing directories of path were created
MkdirPartial(fsys, path, k) ==
    LET missing == MissingPrefixes(fsys, path)
        least == Len(path) - Cardinality(missing)
    IN Overlay(fsys, [q \in { m \in missing : Len(m) <= least + k } |-> Dir])

InitRun ==
    /\ fs \in Layouts
    /\ fs0 = fs
    /\ cwd = Home
    /\ pc = "start"
    /\ projectName \in ProjectNames
    /\ projectPath = Undefined
    /\ options \in [typescript : BOOLEAN, javascript : BOOLEAN]
    /\ userAgent \in RunAgents
    /\ installed \in SUBSET Managers
    /\ probeDir = Undefined
    /\ manifestPm = NoMatch
    /\ pm = NoMatch
    /\ originalCwd = Undefined
    /\ thrown = FALSE
    /\ exitCode = -1
    /\ rollbackRan = FALSE
    /\ resolverCalls = 0
    /\ installCalls = 0
    /\ printedRun = "\\none"

env == <<projectName, options, userAgent, installed, probeDir, fs0>>

\* lines 24-30: the directory exists, process.exit(1)
DirectoryExists ==
    /\ pc = "start"
    /\ projectPath' = Resolve(cwd, projectName)
    /\ ExistsSync(fs, Resolve(cwd, projectName))
    /\ pc' = "exited"
    /\ exitCode' = 1
    /\ UNCHANGED <<fs, cwd, manifestPm, pm, originalCwd, thrown, rollbackRan,
                   resolverCalls, installCalls, printedRun, env>>

\* MakeProjectDir without the existence check of lines 27-30 before it
MakeProjectDirUnchecked ==
    /\ pc = "start"
    /\ projectPath' = Resolve(cwd, projectName)
    /\ AncestorsAreDirs(fs, Resolve(cwd, projectName))
    /\ fs' = MkdirRecursive(fs, Resolve(cwd, projectName))
    /\ pc' = "structure"
    /\ UNCHANGED <<cwd, manifestPm, pm, originalCwd, thrown, exitCode, rollbackRan,
                   resolverCalls, installCalls, printedRun, env>>

\* line 33: mkdirSync(projectPath, {recursive: true}) succeeds
MakeProjectDir ==
    /\ pc = "start"
    /\ projectPath' = Resolve(cwd, projectName)
    /\ ~ExistsSync(fs, Resolve(cwd, projectName))
    /\ AncestorsAreDirs(fs, Resolve(cwd, projectName))
    /\ fs' = MkdirRecursive(fs, Resolve(cwd, projectName))
    /\ pc' = "structure"
    /\ UNCHANGED <<cwd, manifestPm, pm, originalCwd, thrown, exitCode, rollbackRan,
                   resolverCalls, installCalls, printedRun, env>>

\* line 33 throws (ENOTDIR under a regular file, or an error after the first
\* k missing ancestors were made).  The call is outside the try block: the
\* promise of the async action rejects, nothing handles it, and Node (16 or
\* later, as the README requires) ends the process with status 1
MakeProjectDirThrows ==
    /\ pc = "start"
    /\ projectPath' = Resolve(cwd, projectName)
    /\ ~ExistsSync(fs, Resolve(cwd, projectName))
    /\ \E k \in 0..(Cardinality(MissingPrefixes(fs, Resolve(cwd, projectName))) - 1) :
          /\ AncestorsAreDirs(fs, Resolve(cwd, projectName)) \/ k = 0
          /\ fs' = MkdirPartial(fs, Resolve(cwd, projectName), k)
    /\ thrown' = TRUE
    /\ pc' = "exited"
    /\ exitCode' = 1
    /\ UNCHANGED <<cwd, manifestPm, pm, originalCwd, rollbackRan,
                   resolverCalls, installCalls, printedRun, env>>

\* line 37: createProjectStructure, or an exception after k of its mkdirSync
CreateProjectStructure ==
    /\ pc = "structure"
    /\ \E k \in 0..Len(StructureDirs) :
          /\ fs' = MkdirAll(fs, projectPath, StructureDirs, k)
          /\ thrown' = (k < Len(StructureDirs))
          /\ pc' = IF k < Len(StructureDirs) THEN "catch" ELSE "templates"
    /\ UNCHANGED <<cwd, projectPath, manifestPm, pm, originalCwd, exitCode, rollbackRan,
                   resolverCalls, installCalls, printedRun, env>>

\* CopyTemplateFiles with the extension taken from options.typescript
CopyTemplateFilesByTypescriptFlag ==
    /\ pc = "templates"
    /\ LET ext == IF options.typescript THEN "ts" ELSE "js"
           files == getTemplateFiles(ext)
       IN \E k \in 0..Len(files) :
             /\ fs' = WriteAll(fs, projectPath, files, k)
             /\ thrown' = (k < Len(files))
             /\ pc' = IF k < Len(files) THEN "catch" ELSE "manifest"
    /\ UNCHANGED <<cwd, projectPath, manifestPm, pm, originalCwd, exitCode, rollbackRan,
                   resolverCalls, installCalls, printedRun, env>>

\* line 40: copyTemplateFiles(projectPath, 'basic', options.javascript), or an
\* exception after k of its files
CopyTemplateFiles ==
    /\ pc = "templates"
    /\ LET ext == IF options.javascript THEN "js" ELSE "ts"
           files == getTemplateFiles(ext)
       IN \E k \in 0..Len(files) :
             /\ fs' = WriteAll(fs, projectPath, files, k)
             /\ thrown' = (k < Len(files))
             /\ pc' = IF k < Len(files) THEN "catch" ELSE "manifest"
    /\ UNCHANGED <<cwd, projectPath, manifestPm, pm, originalCwd, exitCode, rollbackRan,
                   resolverCalls, installCalls, printedRun, env>>

\* line 43: createPackageJson (lines 238-268); written is whether
\* writeFileSync succeeded
CreatePackageJson ==
    /\ pc = "manifest"
    /\ LET packageManager ==
               detectPackageManager(fs, projectPath, cwd, userAgent, installed)
           packageJson == PackageJsonObject(projectName, options, packageManager)
       IN /\ manifestPm' = packageManager
          /\ resolverCalls' = resolverCalls + 1
          /\ \E written \in BOOLEAN :
                /\ fs' = IF written
                         THEN WriteFile(fs, Join(projectPath, <<"package.json">>),
                                        JSONstringify(packageJson))
                         ELSE fs
                /\ thrown' = ~written
                /\ pc' = IF written THEN "detect" ELSE "catch"
    /\ UNCHANGED <<cwd, projectPath, pm, originalCwd, exitCode, rollbackRan,
                   installCalls, printedRun, env>>

\* line 46: const packageManager = detectPackageManager(projectPath)
DetectForInstall ==
    /\ pc = "detect"
    /\ pm' = detectPackageManager(fs, projectPath, cwd, userAgent, installed)
    /\ resolverCalls' = resolverCalls + 1
    /\ pc' = "chdir"
    /\ UNCHANGED <<fs, cwd, projectPath, manifestPm, originalCwd, thrown, exitCode,
                   rollbackRan, installCalls, printedRun, env>>


\* installDependencies lines 128-131: remember the directory, enter the project
InstallChdir ==
    /\ pc = "chdir"
    /\ originalCwd' = cwd
    /\ cwd' = projectPath
    /\ pc' = "exec"
    /\ UNCHANGED <<fs, projectPath, manifestPm, pm, thrown, exitCode, rollbackRan,
                   resolverCalls, installCalls, printedRun, env>>

\* lines 134-137: the install subprocess succeeds; it runs in the process
\* working directory and leaves node_modules and the manager's lock file there
InstallExec ==
    /\ pc = "exec"
    /\ pm.name \in installed
    /\ fs' = WriteFile(MkdirRecursive(fs, Join(cwd, <<"node_modules">>)),
                       Join(cwd, <<pm.lockFile>>),
                       [t |-> "raw", id |-> "lock", ts |-> FALSE])
    /\ installCalls' = installCalls + 1
    /\ pc' = "finally"
    /\ UNCHANGED <<cwd, projectPath, manifestPm, pm, originalCwd, thrown, exitCode,
                   rollbackRan, resolverCalls, printedRun, env>>

\* lines 134-137: execSync throws (command missing, non-zero exit), possibly
\* after the subprocess started to fill node_modules
InstallExecThrows ==
    /\ pc = "exec"
    /\ \E partial \in BOOLEAN :
          fs' = IF partial /\ pm.name \in installed
                THEN MkdirRecursive(fs, Join(cwd, <<"node_modules">>))
                ELSE fs
    /\ installCalls' = installCalls + 1
    /\ thrown' = TRUE
    /\ pc' = "finally"
    /\ UNCHANGED <<cwd, projectPath, manifestPm, pm, originalCwd, exitCode,
                   rollbackRan, resolverCalls, printedRun, env>>

\* InstallFinally with the chdir back after execSync instead of in a finally
\* block: an exception skips it
InstallFinallySkippedOnThrow ==
    /\ pc = "finally"
    /\ cwd' = IF thrown THEN cwd ELSE originalCwd
    /\ pc' = IF thrown THEN "catch" ELSE "success"
    /\ UNCHANGED <<fs, projectPath, manifestPm, pm, originalCwd, thrown, exitCode,
                   rollbackRan, resolverCalls, installCalls, printedRun, env>>

\* lines 138-140: finally { process.chdir(originalCwd) }
InstallFinally ==
    /\ pc = "finally"
    /\ cwd' = originalCwd
    /\ pc' = IF thrown THEN "catch" ELSE "success"
    /\ UNCHANGED <<fs, projectPath, manifestPm, pm, originalCwd, thrown, exitCode,
                   rollbackRan, resolverCalls, installCalls, printedRun, env>>

\* lines 49-62: the success message and the quick-start text
ReportSuccess ==
    /\ pc = "success"
    /\ printedRun' = pm.runCommand
    /\ exitCode' = 0
    /\ pc' = "done"
    /\ UNCHANGED <<fs, cwd, projectPath, manifestPm, pm, originalCwd, thrown,
                   rollbackRan, resolverCalls, installCalls, env>>

\* lines 63-70: the catch block removes the project directory and exits 1
CleanUp ==
    /\ pc = "catch"
    /\ fs' = IF ExistsSync(fs, projectPath) THEN RmRecursive(fs, projectPath) ELSE fs
    /\ rollbackRan' = ExistsSync(fs, projectPath)
    /\ exitCode' = 1
    /\ pc' = "exited"
    /\ UNCHANGED <<cwd, projectPath, manifestPm, pm, originalCwd, thrown,
                   resolverCalls, installCalls, printedRun, env>>

Next ==
    \/ DirectoryExists
    \/ MakeProjectDir
    \/ MakeProjectDirThrows
    \/ CreateProjectStructure
    \/ CopyTemplateFiles
    \/ CreatePackageJson
    \/ DetectForInstall
    \/ InstallChdir
    \/ InstallExec
    \/ InstallExecThrows
    \/ InstallFinally
    \/ ReportSuccess
    \/ CleanUp

Spec == InitRun /\ [][Next]_vars


-----------------------------------------------------------------------------
(* detectPackageManager called on an arbitrary directory *)

Target == <<"w", "t">>

AgentWords == <<S_npm, S_pnpm, S_yarn, S_bun>>

RECURSIVE Concat(_)
Concat(words) ==
    IF words = <<>> THEN <<>> ELSE Head(words) \o Concat(Tail(words))

\* sequences of at most MaxWords distinct agent words
WordLists ==
    UNION { { w \in [1..n -> 1..Len(AgentWords)] :
                \A i, j \in 1..n : i # j => w[i] # w[j] } : n \in 0..MaxWords }

\* values of npm_config_user_agent: unset, or the words run together
Agents ==
    {Undefined} \cup
    { Concat([i \in 1..Len(w) |-> AgentWords[w[i]]]) : w \in WordLists }

LockFiles == { PACKAGE_MANAGERS[n].lockFile : n \in Managers }

ConfigFiles == { PACKAGE_MANAGERS[n].configFile : n \in Managers } \ {NoConfig}

Str(chars) == [t |-> "str", s |-> chars]

\* values of the packageManager field of a manifest
FieldValues ==
    { Str(S_pnpm \o S_at \o S_ver), Str(S_npm \o S_at \o S_ver),
      Str(S_bun \o S_at \o S_ver), Str(S_yarn),
      Str(S_deno \o S_at \o S_ver), Str(S_ctor \o S_at \o S_ver),
      Str(<<>>), [t |-> "num", n |-> 8] }

\* what package.json is in the probed directory: a directory, text that is
\* no JSON, the JSON null, an object without or with a packageManager field
ManifestNodes ==
    { Dir, File([t |-> "raw", id |-> "garbage", ts |-> FALSE]),
      File(JSONstringify([t |-> "null"])),
      File(JSONstringify([t |-> "obj", f |-> [version |-> "1.0.0"]])) }
    \cup { File(JSONstringify([t |-> "obj",
                               f |-> [version |-> "1.0.0", packageManager |-> v]])) :
             v \in FieldValues }

\* the probed directory with the marker files `markers` and manifest node m
\* (absent when m is the empty sequence); the caller's own directory holds a
\* yarn.lock
ProbeFs(markers, m) ==
    LET base == (Home :> Dir) @@ (Target :> Dir)
                @@ (Join(Home, <<"yarn.lock">>) :> File(KeepText))
        marks == [p \in { Join(Target, <<f>>) : f \in markers } |-> File(KeepText)]
        mani == IF m = <<>> THEN <<>>
                ELSE (Join(Target, <<"package.json">>) :> m[1])
    IN base @@ marks @@ mani

InitDetect ==
    /\ \E markers \in SUBSET (LockFiles \cup ConfigFiles) :
       \E m \in {<<>>} \cup { <<n>> : n \in ManifestNodes } :
          fs = ProbeFs(markers, m)
    /\ fs0 = fs
    /\ cwd = Home
    /\ pc = "detect"
    /\ projectName = <<>>
    /\ projectPath = Undefined
    /\ options = [typescript |-> TRUE, javascript |-> FALSE]
    /\ userAgent \in Agents
    /\ installed \in SUBSET Managers
    /\ probeDir = Undefined
    /\ manifestPm = NoMatch
    /\ pm = NoMatch
    /\ originalCwd = Undefined
    /\ thrown = FALSE
    /\ exitCode = -1
    /\ rollbackRan = FALSE
    /\ resolverCalls = 0
    /\ installCalls = 0
    /\ printedRun = "\\none"

\* detectPackageManager(dir), and detectPackageManager() for dir Undefined
Detect(dir) ==
    /\ pc = "detect"
    /\ probeDir' = dir
    /\ pm' = detectPackageManager(fs, dir, cwd, userAgent, installed)
    /\ resolverCalls' = resolverCalls + 1
    /\ pc' = "returned"
    /\ UNCHANGED <<fs, cwd, projectName, projectPath, options, userAgent, installed,
                   manifestPm, originalCwd, thrown, exitCode, rollbackRan,
                   installCalls, printedRun, fs0>>

DetectAt == Detect(Target)

DetectCwd == Detect(Undefined)

NextDetect == DetectAt \/ DetectCwd

SpecDetect == InitDetect /\ [][NextDetect]_vars


-----------------------------------------------------------------------------
(* Properties of createProject *)

Finished == pc \in {"done", "exited"}

\* the call found its target present when it started
TargetExisted == ExistsSync(fs0, Resolve(Home, projectName))

\* nothing at or below path
Absent(fsys, path) == \A q \in DOMAIN fsys : ~IsPrefix(path, q)

\* C1: when the path of the project name already exists, createProject ends
\* with exit status 1 and writes nothing: the file system stays as it was, the
\* rollback does not run, and neither the resolver nor the install command is
\* invoked.
C1_ExistingTargetUntouched ==
    TargetExisted =>
        /\ pc \in {"start", "exited"}
        /\ fs = fs0
        /\ ~rollbackRan
        /\ resolverCalls = 0
        /\ installCalls = 0
        /\ cwd = Home
        /\ (pc = "exited" => exitCode = 1 /\ ~thrown)

C1_Witness ==
    /\ pc = "exited"
    /\ TargetExisted
    /\ fs0[projectPath].kind = "dir"
    /\ Join(projectPath, <<"keep.txt">>) \in DOMAIN fs
    /\ exitCode = 1

\* C2: any failure in steps 2-6 (an exception from creating the target
\* directory onward) triggers the rollback: the run ends with a non-zero exit
\* status, the project directory is gone, and the catch block removed it
\* unless the run had created nothing at all.
C2_FailureTriggersRollback ==
    (Finished /\ thrown) =>
        /\ exitCode # 0
        /\ Absent(fs, projectPath)
        /\ (rollbackRan \/ fs = fs0)

\* the skeleton, the template files, the manifest and the result of a
\* successful install are all in place
FullStructure ==
    /\ \A i \in 1..Len(StructureDirs) :
          Join(projectPath, StructureDirs[i]) \in DOMAIN fs
    /\ { Join(projectPath, <<"README.md">>), Join(projectPath, <<".gitignore">>),
         Join(projectPath, <<"package.json">>),
         Join(projectPath, <<"node_modules">>) } \subseteq DOMAIN fs
    /\ Join(projectPath, <<"src", IF options.javascript THEN "index.js" ELSE "index.ts">>)
          \in DOMAIN fs
    /\ installCalls = 1
    /\ ~thrown

\* C3: all or nothing.  A finished run that got past the existing-directory
\* check and created its target directory (it succeeded, or its failure
\* reached the catch block) leaves either the full structure with a
\* successful install, or nothing of what it created: the file system is the
\* one it started from.  Holds for project names of several segments too.
C3_AllOrNothing ==
    (Finished /\ ~TargetExisted /\ (rollbackRan \/ ~thrown)) =>
        (FullStructure \/ fs = fs0)

\* C4: installDependencies leaves the working directory unchanged, on normal
\* return and when the install subprocess throws; the working directory is
\* the project path only from the chdir of line 131 to the finally block.
C4_CwdRestored ==
    /\ (pc \in {"exec", "finally"} => cwd = projectPath /\ originalCwd = Home)
    /\ (pc \notin {"exec", "finally"} => cwd = Home)
    /\ (installCalls > 0 /\ pc \notin {"exec", "finally"} => cwd = originalCwd)

C4_Witness ==
    /\ pc = "catch"
    /\ installCalls = 1
    /\ thrown
    /\ cwd = originalCwd
    /\ cwd # projectPath

\* the manifest createPackageJson wrote, once it is on disk
ManifestWritten ==
    /\ projectPath # Undefined
    /\ Join(projectPath, <<"package.json">>) \in DOMAIN fs

WrittenManifest == JSONparse(fs[Join(projectPath, <<"package.json">>)].text).f

\* C10: in typed mode the manifest follows the resolved manager.  With bun
\* the dev-dependencies hold no ts-node-dev and the dev script is bun's watch
\* invocation; with any other manager they hold ts-node-dev, the dev script
\* is the ts-node-dev one and the build script is tsc.
C10_TypedManifestAdaptsToManager ==
    (ManifestWritten /\ ~options.javascript) =>
        IF manifestPm.name = "bun"
        THEN /\ "ts-node-dev" \notin DOMAIN WrittenManifest.devDependencies
             /\ WrittenManifest.scripts.dev = "bun run --watch src/index.ts"
        ELSE /\ "ts-node-dev" \in DOMAIN WrittenManifest.devDependencies
             /\ WrittenManifest.scripts.dev =
                    "ts-node-dev --respawn --transpile-only src/index.ts"
             /\ WrittenManifest.scripts.build = "tsc"

C10_Witness ==
    /\ ManifestWritten
    /\ ~options.javascript
    /\ manifestPm.name = "bun"
    /\ DOMAIN WrittenManifest.devDependencies = {"@types/node", "typescript"}
    /\ pc = "done"


-----------------------------------------------------------------------------
(* Properties of detectPackageManager *)

Returned == pc = "returned"

\* the directory the call probed
ProbedDir == IF probeDir = Undefined THEN cwd ELSE probeDir

\* managers whose lock file, config file is in the probed directory
LocksPresent ==
    { n \in Managers : Join(ProbedDir, <<PACKAGE_MANAGERS[n].lockFile>>) \in DOMAIN fs }

ConfigsPresent ==
    { n \in Managers : /\ PACKAGE_MANAGERS[n].configFile # NoConfig
                       /\ Join(ProbedDir, <<PACKAGE_MANAGERS[n].configFile>>) \in DOMAIN fs }

ManifestPath == Join(ProbedDir, <<"package.json">>)

\* package.json is a file holding a JSON object with a string packageManager
DeclaresString ==
    /\ ManifestPath \in DOMAIN fs
    /\ fs[ManifestPath].kind = "file"
    /\ fs[ManifestPath].text.t = "json"
    /\ fs[ManifestPath].text.doc.t = "obj"
    /\ "packageManager" \in DOMAIN fs[ManifestPath].text.doc.f
    /\ fs[ManifestPath].text.doc.f.packageManager.t = "str"

Declared == fs[ManifestPath].text.doc.f.packageManager.s

\* chars is <name>@<version> for the manager n
HasForm(chars, n) ==
    /\ Len(chars) > Len(KeyChars[n]) + 1
    /\ SubSeq(chars, 1, Len(KeyChars[n]) + 1) = KeyChars[n] \o S_at

\* chars is the name of manager n, alone or followed by @ and anything
NamesManager(chars, n) ==
    \/ chars = KeyChars[n]
    \/ /\ Len(chars) > Len(KeyChars[n])
       /\ SubSeq(chars, 1, Len(KeyChars[n]) + 1) = KeyChars[n] \o S_at

\* the manifest declares manager n in the form <name>@<version>
ManifestSelects(n) == DeclaresString /\ HasForm(Declared, n)

\* the manifest names some manager, in that form or by its bare name
ManifestNamesManager ==
    DeclaresString /\ \E n \in Managers : NamesManager(Declared, n)

AgentSet == userAgent # Undefined

\* the file system without the manifest of the probed directory
WithoutManifest == [p \in DOMAIN fs \ {ManifestPath} |-> fs[p]]

\* C5: detectPackageManager is total: whatever the directory, the
\* environment hint and the version checks, it returns one of the four
\* descriptors of PACKAGE_MANAGERS.
C5_ReturnsDescriptor ==
    Returned => pm \in Descriptors

\* C6: probe precedence.  A lock file decides before a config file, a config
\* file before the manifest field, the manifest field before the environment
\* hint, the hint before availability, whatever the later probes would find.
\* With the lock file of exactly one manager M present the result is M,
\* whichever config files are present.
C6_ProbePrecedence ==
    Returned =>
        /\ (LocksPresent # {} => pm.name \in LocksPresent)
        /\ (\A m \in Managers : LocksPresent = {m} => pm = PACKAGE_MANAGERS[m])
        /\ (LocksPresent = {} /\ ConfigsPresent # {} => pm.name \in ConfigsPresent)
        /\ (\A m \in Managers :
               (LocksPresent = {} /\ ConfigsPresent = {} /\ ManifestSelects(m))
                   => pm = PACKAGE_MANAGERS[m])
        /\ ((LocksPresent = {} /\ ConfigsPresent = {} /\ ManifestPath \notin DOMAIN fs
               /\ AgentSet
               /\ \E n \in {"pnpm", "yarn", "bun"} : Includes(userAgent, KeyChars[n]))
              => /\ pm.name \in {"pnpm", "yarn", "bun"}
                 /\ Includes(userAgent, KeyChars[pm.name]))

C6_Witness ==
    /\ Returned
    /\ LocksPresent = {"pnpm"}
    /\ ConfigsPresent = {"yarn"}
    /\ ManifestSelects("bun")
    /\ AgentSet /\ Includes(userAgent, S_yarn)
    /\ installed = {"npm"}
    /\ pm = PACKAGE_MANAGERS.pnpm

\* the manager the environment hint stands for: pnpm, else yarn, else bun
HintedManager ==
    IF Includes(userAgent, S_pnpm) THEN "pnpm"
    ELSE IF Includes(userAgent, S_yarn) THEN "yarn"
    ELSE "bun"

\* C7: when the probed directory holds no lock file, no config file and no
\* manifest field naming a manager, a hint containing "pnpm" yields pnpm,
\* otherwise one containing "yarn" yields yarn, otherwise one containing
\* "bun" yields bun, whichever managers are installed.
C7_HintPriority ==
    (Returned /\ LocksPresent = {} /\ ConfigsPresent = {} /\ ~ManifestNamesManager
       /\ AgentSet
       /\ \E n \in {"pnpm", "yarn", "bun"} : Includes(userAgent, KeyChars[n]))
        => pm = PACKAGE_MANAGERS[HintedManager]

\* the first installed manager in the order pnpm, yarn, bun, npm; npm when
\* none is installed
PreferredInstalled ==
    IF "pnpm" \in installed THEN "pnpm"
    ELSE IF "yarn" \in installed THEN "yarn"
    ELSE IF "bun" \in installed THEN "bun"
    ELSE "npm"

\* no probe before the availability probe returned: no lock file, no config
\* file, no packageManager field the lookup of line 75 resolves, no hint
\* containing pnpm, yarn or bun
EarlierProbesMiss ==
    /\ LocksPresent = {}
    /\ ConfigsPresent = {}
    /\ ~(DeclaresString /\ Lookup(SplitFirst(Declared, "@")) # NoMatch)
    /\ ~(AgentSet /\ \E n \in {"pnpm", "yarn", "bun"} : Includes(userAgent, KeyChars[n]))

\* C8: when probes 1-4 all miss, the result is the first manager in the order
\* pnpm, yarn, bun, npm whose version check succeeded, and npm when none
\* succeeded; a fresh directory with no hint and nothing installed gives npm.
C8_AvailabilityPreference ==
    (Returned /\ EarlierProbesMiss) => pm = PACKAGE_MANAGERS[PreferredInstalled]

C8_Witness ==
    /\ Returned
    /\ EarlierProbesMiss
    /\ installed = {"npm", "bun", "yarn"}
    /\ pm = PACKAGE_MANAGERS.yarn

C8_WitnessFresh ==
    /\ Returned
    /\ EarlierProbesMiss
    /\ ManifestPath \notin DOMAIN fs
    /\ ~AgentSet
    /\ installed = {}
    /\ pm = PACKAGE_MANAGERS.npm

\* C9: with no lock and no config file in the way, the manifest probe selects
\* M when package.json parses and declares <name>@<version> with the known
\* name M, and when the manifest names no manager (it is missing, is no file,
\* does not parse, has no string packageManager, or that string starts with
\* no manager's name) the result is the one the same directory gives without
\* its package.json.  (A bare manager name without @<version>, which the
\* claim also counts as no match, is left out of both cases here.)
C9_ManifestProbeExact ==
    (Returned /\ LocksPresent = {} /\ ConfigsPresent = {}) =>
        /\ \A m \in Managers : ManifestSelects(m) => pm = PACKAGE_MANAGERS[m]
        /\ (~ManifestNamesManager =>
               pm = detectPackageManager(WithoutManifest, probeDir, cwd,
                                         userAgent, installed))


-----------------------------------------------------------------------------
(* Properties of the generated project *)

\* the scripts generateScripts gives a project without TypeScript
UntypedDevScripts == {"node --watch src/index.js", "bun run --watch src/index.js"}

UntypedStartScripts == {"node src/index.js", "bun run src/index.js"}

\* C11: in untyped mode, whichever manager was resolved, the manifest's
\* dev-dependencies are empty, its scripts are dev and start only (no build
\* script, no ts-node-dev or tsc command), and no tsconfig.json is in the
\* project directory at any point of the run.
C11_UntypedHasNoTypeTooling ==
    (options.javascript /\ projectPath # Undefined) =>
        /\ Join(projectPath, <<"tsconfig.json">>) \notin DOMAIN fs
        /\ (ManifestWritten =>
              /\ DOMAIN WrittenManifest.devDependencies = {}
              /\ DOMAIN WrittenManifest.scripts = {"dev", "start"}
              /\ WrittenManifest.scripts.dev \in UntypedDevScripts
              /\ WrittenManifest.scripts.start \in UntypedStartScripts)

C11_Witness ==
    /\ pc = "done"
    /\ options.javascript
    /\ manifestPm.name = "bun"
    /\ ManifestWritten
    /\ DOMAIN WrittenManifest.devDependencies = {}
    /\ Join(projectPath, <<"src", "index.js">>) \in DOMAIN fs
    /\ Join(projectPath, <<"tsconfig.json">>) \notin DOMAIN fs

\* C12: the manifest holds the packageManager pin exactly when the manager
\* resolved for it is not npm, and the pin is then that manager's name
\* followed by @latest.
C12_PinIffNotNpm ==
    ManifestWritten =>
        /\ ("packageManager" \in DOMAIN WrittenManifest) <=> (manifestPm.name # "npm")
        /\ ("packageManager" \in DOMAIN WrittenManifest =>
              /\ manifestPm.name \in Managers
              /\ WrittenManifest.packageManager.t = "str"
              /\ WrittenManifest.packageManager.s =
                     KeyChars[manifestPm.name] \o <<"@", "l", "a", "t", "e", "s", "t">>)

C12_Witness ==
    /\ ManifestWritten
    /\ manifestPm.name = "pnpm"
    /\ "packageManager" \in DOMAIN WrittenManifest
    /\ WrittenManifest.packageManager.s =
           <<"p", "n", "p", "m", "@", "l", "a", "t", "e", "s", "t">>

C12_WitnessNpm ==
    /\ ManifestWritten
    /\ manifestPm.name = "npm"
    /\ "packageManager" \notin DOMAIN WrittenManifest

IsDirAt(rel) ==
    /\ Join(projectPath, rel) \in DOMAIN fs
    /\ fs[Join(projectPath, rel)].kind = "dir"

IsFileAt(rel) ==
    /\ Join(projectPath, rel) \in DOMAIN fs
    /\ fs[Join(projectPath, rel)].kind = "file"

\* C13: when createProject succeeds the project directory holds the
\* directories src, src/routes, src/middleware, src/utils and public, the
\* files README.md, .gitignore, package.json and the entry point src/index.ts
\* (typed) or src/index.js (untyped), and tsconfig.json exactly in typed mode;
\* in typed mode with npm the build script is tsc and there is no pin.
C13_SuccessfulProjectLayout ==
    pc = "done" =>
        /\ \A d \in { <<"src">>, <<"src", "routes">>, <<"src", "middleware">>,
                      <<"src", "utils">>, <<"public">> } : IsDirAt(d)
        /\ \A f \in { <<"README.md">>, <<".gitignore">>, <<"package.json">> } :
              IsFileAt(f)
        /\ IsFileAt(IF options.javascript THEN <<"src", "index.js">>
                    ELSE <<"src", "index.ts">>)
        /\ IsFileAt(<<"tsconfig.json">>) <=> ~options.javascript
        /\ ((~options.javascript /\ manifestPm.name = "npm") =>
              /\ WrittenManifest.scripts.build = "tsc"
              /\ "packageManager" \notin DOMAIN WrittenManifest)

C13_Witness ==
    /\ pc = "done"
    /\ exitCode = 0
    /\ projectName = <<"a">>
    /\ ~options.javascript
    /\ userAgent = Undefined
    /\ installed = {"npm"}
    /\ manifestPm.name = "npm"
    /\ IsFileAt(<<"tsconfig.json">>)
    /\ IsDirAt(<<"public">>)
    /\ WrittenManifest.scripts.build = "tsc"

\* the run got as far as installDependencies
InstallReached ==
    pc \in {"chdir", "exec", "finally", "success", "done"} \/ installCalls > 0

\* C14: one descriptor per run.  In every run that reaches the install step
\* the descriptor whose install command runs, and whose run command is
\* printed on success, is the descriptor createPackageJson used for the
\* scripts, the dev-dependencies and the pin of the manifest.  (The resolver
\* is called twice, at line 244 and at line 46; the two results agree while
\* the hint and the installed managers stay as they are during the run.)
C14_OneDescriptorPerRun ==
    InstallReached =>
        /\ pm \in Descriptors
        /\ pm = manifestPm
        /\ (ManifestWritten =>
              WrittenManifest.scripts = generateScripts(pm, ~options.javascript))
        /\ (pc = "done" => printedRun = manifestPm.runCommand)

C14_Witness ==
    /\ pc = "done"
    /\ userAgent = Undefined
    /\ installed = {"npm", "yarn"}
    /\ manifestPm = PACKAGE_MANAGERS.yarn
    /\ pm = PACKAGE_MANAGERS.yarn
    /\ resolverCalls = 2
    /\ installCalls = 1
    /\ printedRun = "yarn"
    /\ Join(projectPath, <<"yarn.lock">>) \in DOMAIN fs

\* createProject is about to call detectPackageManager(projectPath): at
\* "manifest" the call of createPackageJson (line 244), at "detect" the call
\* of createProject (line 46)
AboutToResolve == pc \in {"manifest", "detect"}

\* C15: every time createProject resolves the package manager the project
\* directory holds no lock file and no manifest, probes 1-3 miss and the
\* result is decided by probe 4, 5 or the fallback.  Stated by what the
\* claim concludes: no lock file is there, the three probes miss and the
\* first probe to match is none of them.
C15_EarlyProbesAlwaysMiss ==
    AboutToResolve =>
        /\ \A n \in Managers :
              ~ExistsSync(fs, Join(projectPath, <<PACKAGE_MANAGERS[n].lockFile>>))
        /\ LockProbe(fs, projectPath) = NoMatch
        /\ ConfigProbe(fs, projectPath) = NoMatch
        /\ ManifestProbe(fs, projectPath) = NoMatch
        /\ FirstMatch(Probes(fs, projectPath, userAgent, installed)) >= 4

TypedDevScripts ==
    {"ts-node-dev --respawn --transpile-only src/index.ts",
     "bun run --watch src/index.ts"}

\* the source file a dev script of generateScripts names
DevEntry(script) ==
    IF script \in TypedDevScripts THEN <<"src", "index.ts">>
    ELSE <<"src", "index.js">>

\* C16: the language mode is decided by options.javascript alone, for every
\* combination of the typescript and javascript flags, and templates and
\* manifest agree on it: once the manifest is written, the file its dev
\* script names is the entry point among the project's files and the other
\* entry point is absent, tsconfig.json is there exactly when the scripts are
\* the typed ones (they have a build script), and main is dist/index.js in
\* typed mode and src/index.js in untyped mode.
C16_LanguageModeConsistent ==
    ManifestWritten =>
        LET scripts == WrittenManifest.scripts
            typed == "build" \in DOMAIN scripts
        IN /\ typed <=> ~options.javascript
           /\ scripts.dev \in (IF typed THEN TypedDevScripts ELSE UntypedDevScripts)
           /\ IsFileAt(DevEntry(scripts.dev))
           /\ \A e \in {<<"src", "index.ts">>, <<"src", "index.js">>} :
                 e # DevEntry(scripts.dev) => Join(projectPath, e) \notin DOMAIN fs
           /\ IsFileAt(<<"tsconfig.json">>) <=> typed
           /\ WrittenManifest.main = IF typed THEN "dist/index.js" ELSE "src/index.js"

\* both flags set: the run is an untyped one
C16_Witness ==
    /\ pc = "done"
    /\ options.typescript
    /\ options.javascript
    /\ ManifestWritten
    /\ WrittenManifest.main = "src/index.js"
    /\ WrittenManifest.scripts.dev = "node --watch src/index.js"
    /\ IsFileAt(<<"src", "index.js">>)
    /\ ~IsFileAt(<<"tsconfig.json">>)

====
